---- MODULE Spec2Model ----
(***************************************************************************)
(* Poindexter KDTree facade (src/kdtree.go, first revision in the file)    *)
(* with the median-split pruning backend (src/kdtree_gonum.go).            *)
(*                                                                         *)
(* Coordinates are integers.  A distance is kept on the scale of its       *)
(* metric: L1 and L-infinity distances are the integer itself, an L2       *)
(* distance is kept as its radicand (the sum of squares under math.Sqrt),  *)
(* and a plain magnitude (a hyperplane offset, a radius) is brought to     *)
(* that scale by OnScale before it is compared with a distance.  Sqrt is   *)
(* strictly increasing, so every comparison of the code is preserved.      *)
(* A float64 magnitude above math.MaxFloat64 is +Inf: every arithmetic     *)
(* result passes through Sat.  Coordinates are finite; rounding is not     *)
(* modelled.                                                               *)
(* Positions are 0-based as in the code; sequences are 1-based.            *)
(***************************************************************************)
EXTENDS Integers, Sequences, FiniteSets, TLC

\* math.MaxFloat64, scaled down; the magnitudes above it are +Inf
MaxFloat64 == 1000
Inf == MaxFloat64 + 1

\* ------------------------------------------------------------------ bounds
\* Insert is offered while the tree holds fewer points than this
MaxPoints == 3
MaxGoroutines == 3
MaxCount == 2

Dims == {1, 2}
IDs == {"", "a", "b"}
CoordPool(d) ==
    IF d = 1 THEN {<<0>>, <<2>>, <<MaxFloat64>>}
    ELSE IF d = 2 THEN {<<0, 0>>, <<2, 0>>, <<0, 1>>}
    ELSE {}
\* a coordinate vector whose length is not d
Mismatch(d) == IF d = 1 THEN <<0, 0>> ELSE <<0>>
QueryPool(d) ==
    IF d = 1 THEN {<<1>>, <<0>>}
    ELSE IF d = 2 THEN {<<1, 1>>, <<2, 1>>}
    ELSE {}
\* k and r offered to KNearest and Radius; the last k exceeds every Len()
Ks == {0, 1, 2, MaxPoints + 1}
Rs == {-1, 0, 1, 2}
\* lengths of the slices offered to NewKDTree
InitLens == 0..3
Metrics == {"L1", "L2", "Linf"}
\* the cosine family: its distances are not modelled, so a facade with one
\* of these metrics is constructed and mutated but not queried
CosineMetrics == {"Cosine", "WeightedCosine"}
Backends == {"linear", "gonum"}

\* ------------------------------------------------------- program constants
BackendLinear == "linear"
BackendGonum == "gonum"
hasGonum == TRUE
Nil == <<>>

\* the difference kept with its sign
AbsSigned(x) == x
Abs(x) == IF x < 0 THEN -x ELSE x
\* the float64 result of an operation whose exact magnitude is x >= 0
Sat(x) == IF x > MaxFloat64 THEN Inf ELSE x

\* --------------------------------------------------------------- metrics
RECURSIVE ManhattanSum(_, _, _)
ManhattanSum(a, b, i) ==
    IF i = 0 THEN 0
    ELSE Sat(ManhattanSum(a, b, i - 1) + Sat(Abs(a[i] - b[i])))

ManhattanDistance(a, b) == ManhattanSum(a, b, Len(a))

RECURSIVE EuclideanSum(_, _, _)
EuclideanSum(a, b, i) ==
    IF i = 0 THEN 0
    ELSE LET d == Sat(Abs(a[i] - b[i]))
         IN Sat(EuclideanSum(a, b, i - 1) + Sat(d * d))

\* radicand of math.Sqrt(sum); math.Sqrt(+Inf) is +Inf
EuclideanDistance(a, b) ==
    LET sum == EuclideanSum(a, b, Len(a))
    IN IF sum = Inf THEN Inf * Inf ELSE sum

\* the loop of ChebyshevDistance without "if d > max"
ChebyshevMaxLast(a, b, i) ==
    IF i = 0 THEN 0 ELSE Sat(Abs(a[i] - b[i]))

RECURSIVE ChebyshevMax(_, _, _)
ChebyshevMax(a, b, i) ==
    IF i = 0 THEN 0
    ELSE LET m == ChebyshevMax(a, b, i - 1)
             d == Sat(Abs(a[i] - b[i]))
         IN IF d > m THEN d ELSE m

ChebyshevDistance(a, b) == ChebyshevMax(a, b, Len(a))

Distance(m, a, b) ==
    CASE m = "L2" -> EuclideanDistance(a, b)
      [] m = "L1" -> ManhattanDistance(a, b)
      [] m = "Linf" -> ChebyshevDistance(a, b)

\* a plain magnitude x >= 0 on the scale of metric m's distances
OnScale(m, x) == IF m = "L2" THEN x * x ELSE x
\* bestDist := math.MaxFloat64
Sentinel(m) == OnScale(m, MaxFloat64)

\* ------------------------------------------------------------ tree nodes
\* kdNode{axis, idx, val, left, right}; a nil *kdNode is Nil
kdNode(axis, idx, val, left, right) == <<axis, idx, val, left, right>>
NodeAxis(n) == n[1]
NodeIdx(n) == n[2]
NodeVal(n) == n[3]
NodeLeft(n) == n[4]
NodeRight(n) == n[5]

RECURSIVE SumCoord(_, _, _)
SumCoord(S, P, d) ==
    IF S = {} THEN 0
    ELSE LET i == CHOOSE x \in S : TRUE
         IN P[i + 1].Coords[d + 1] + SumCoord(S \ {i}, P, d)

RECURSIVE SumDev(_, _, _, _, _)
SumDev(S, P, d, n, tot) ==
    IF S = {} THEN 0
    ELSE LET i == CHOOSE x \in S : TRUE
             delta == n * P[i + 1].Coords[d + 1] - tot
         IN delta * delta + SumDev(S \ {i}, P, d, n, tot)

\* per-axis spread of the positions S of P: n^3 * std^2, which orders the
\* axes exactly as sqrt(vars[d] / n) does for a fixed n
axisStd(S, P, dim) ==
    [d \in 0..(dim - 1) |->
        SumDev(S, P, d, Cardinality(S), SumCoord(S, P, d))]

\* axis := 0; a later axis replaces it only when strictly larger
MaxStdAxis(stds, dim) ==
    CHOOSE a \in 0..(dim - 1) :
        /\ \A d \in 0..(dim - 1) : stds[d] <= stds[a]
        /\ \A d \in 0..(a - 1) : stds[d] < stds[a]

\* a split that takes the element below the middle as the median
MedianSplitsLow(S, P, axis) ==
    LET c(i) == P[i + 1].Coords[axis + 1]
        mid == (Cardinality(S) - 1) \div 2
    IN { <<L, m>> \in (SUBSET S) \X S :
            /\ Cardinality(L) = mid
            /\ m \notin L
            /\ \A l \in L : c(l) <= c(m)
            /\ \A r \in (S \ L) \ {m} : c(m) <= c(r) }

\* sort.Slice is not stable: every order that is sorted on the axis is a
\* possible outcome, so the median and the two halves are any split
\* <<L, m>> with |L| = len/2, L <= m <= rest on the axis.
MedianSplits(S, P, axis) ==
    LET c(i) == P[i + 1].Coords[axis + 1]
        mid == Cardinality(S) \div 2
    IN { <<L, m>> \in (SUBSET S) \X S :
            /\ Cardinality(L) = mid
            /\ m \notin L
            /\ \A l \in L : c(l) <= c(m)
            /\ \A r \in (S \ L) \ {m} : c(m) <= c(r) }

RECURSIVE buildKDRecursive(_, _, _)
buildKDRecursive(S, P, dim) ==
    IF S = {} THEN {Nil}
    ELSE LET axis == MaxStdAxis(axisStd(S, P, dim), dim)
         IN UNION { { kdNode(axis, sp[2], P[sp[2] + 1].Coords[axis + 1], l, r) :
                         l \in buildKDRecursive(sp[1], P, dim),
                         r \in buildKDRecursive((S \ sp[1]) \ {sp[2]}, P, dim) } :
                    sp \in MedianSplits(S, P, axis) }

\* ------------------------------------------------------ pruning backend
\* kdBackend{root, dim, metric, coords, len}; coords is the closure over
\* the slice handed to buildGonumBackend, kept as the name of that slice
kdBackend(root, dim, metric, coords, len) ==
    [root |-> root, dim |-> dim, metric |-> metric, coords |-> coords,
     len |-> len]

Supported(m) == m \in {"L2", "L1", "Linf"}

\* a build that refuses an empty slice
buildGonumBackendNonEmpty(P, m, src) ==
    IF ~Supported(m) \/ Len(P) = 0 THEN {}
    ELSE LET dim == Len(P[1].Coords)
         IN { kdBackend(root, dim, m, src, Len(P)) :
                 root \in buildKDRecursive(0..(Len(P) - 1), P, dim) }

\* the possible results of buildGonumBackend(P, metric) for the slice
\* named src: the set is empty when it returns ErrBackendUnavailable
buildGonumBackend(P, m, src) ==
    IF ~Supported(m) THEN {}
    ELSE IF Len(P) = 0 THEN {kdBackend(Nil, 0, m, src, 0)}
    ELSE LET dim == Len(P[1].Coords)
         IN { kdBackend(root, dim, m, src, Len(P)) :
                 root \in buildKDRecursive(0..(Len(P) - 1), P, dim) }

\* near, far := n.left, n.right; swapped when qv >= n.val
NearChild(n, query) ==
    IF query[NodeAxis(n) + 1] >= NodeVal(n) THEN NodeRight(n) ELSE NodeLeft(n)
FarChild(n, query) ==
    IF query[NodeAxis(n) + 1] >= NodeVal(n) THEN NodeLeft(n) ELSE NodeRight(n)
PlaneDiff(n, query) == Sat(Abs(query[NodeAxis(n) + 1] - NodeVal(n)))

\* if diff <= bestDist { search(far) }
nearestFarGreedy(n, m, query, bestDist) == FALSE
nearestFar(n, m, query, bestDist) ==
    OnScale(m, PlaneDiff(n, query)) <= bestDist

\* the search closure of gonumNearest; best = <<bestIdx, bestDist>>
RECURSIVE nearestSearch(_, _, _, _, _)
nearestSearch(n, P, m, query, best) ==
    IF n = Nil THEN best
    ELSE LET d == Distance(m, query, P[NodeIdx(n) + 1].Coords)
             b1 == IF d < best[2] THEN <<NodeIdx(n), d>> ELSE best
             b2 == nearestSearch(NearChild(n, query), P, m, query, b1)
         IN IF nearestFar(n, m, query, b2[2])
            THEN nearestSearch(FarChild(n, query), P, m, query, b2)
            ELSE b2

\* gonumNearest(backend, query) -> (idx, dist, ok); P is what b.coords reads
gonumNearest(b, P, query) ==
    IF b = Nil \/ b.root = Nil \/ Len(query) # b.dim
    THEN [idx |-> -1, dist |-> 0, ok |-> FALSE]
    ELSE LET best == nearestSearch(b.root, P, b.metric, query,
                                   <<-1, Sentinel(b.metric)>>)
         IN IF best[1] < 0
            THEN [idx |-> -1, dist |-> 0, ok |-> FALSE]
            ELSE [idx |-> best[1], dist |-> best[2], ok |-> TRUE]

\* ------------------------------------------------------------- knnHeap
knnItem(idx, dist) == [idx |-> idx, dist |-> dist]

\* h.less(i, j) on 0-based slots: max-heap by dist
lessMinHeap(h, i, j) == h[i + 1].dist < h[j + 1].dist
less(h, i, j) == h[i + 1].dist > h[j + 1].dist
swap(h, i, j) ==
    [h EXCEPT ![i + 1] = h[j + 1], ![j + 1] = h[i + 1]]

RECURSIVE up(_, _)
up(h, i) ==
    IF i <= 0 THEN h
    ELSE LET p == (i - 1) \div 2
         IN IF ~less(h, i, p) THEN h ELSE up(swap(h, i, p), p)

RECURSIVE down(_, _)
down(h, i) ==
    LET l == 2 * i + 1
        r == l + 1
        l1 == IF l < Len(h) /\ less(h, l, i) THEN l ELSE i
        largest == IF r < Len(h) /\ less(h, r, l1) THEN r ELSE l1
    IN IF largest = i THEN h ELSE down(swap(h, i, largest), largest)

push(h, x) == up(Append(h, x), Len(h))
peek(h) == h[1]

\* a visit that admits an item as close as the heap's maximum
knnVisitNonStrict(h, x, bestCap) ==
    IF Len(h) < bestCap THEN push(h, x)
    ELSE IF x.dist <= peek(h).dist THEN down([h EXCEPT ![1] = x], 0)
    ELSE h

\* one visit of a node by the search closure of gonumKNearest
knnVisit(h, x, bestCap) ==
    IF Len(h) < bestCap THEN push(h, x)
    ELSE IF x.dist < peek(h).dist THEN down([h EXCEPT ![1] = x], 0)
    ELSE h

\* threshold := math.MaxFloat64; the heap's maximum once it holds an item
knnThreshold(m, h, bestCap) ==
    IF Len(h) = bestCap THEN peek(h).dist
    ELSE IF Len(h) > 0 THEN peek(h).dist
    ELSE Sentinel(m)

\* if diff <= threshold { search(far) }
knnFarStrict(n, m, query, h, bestCap) ==
    OnScale(m, PlaneDiff(n, query)) < knnThreshold(m, h, bestCap)
knnFar(n, m, query, h, bestCap) ==
    OnScale(m, PlaneDiff(n, query)) <= knnThreshold(m, h, bestCap)

RECURSIVE knnSearch(_, _, _, _, _, _)
knnSearch(n, P, m, query, bestCap, h) ==
    IF n = Nil THEN h
    ELSE LET d == Distance(m, query, P[NodeIdx(n) + 1].Coords)
             h1 == knnVisit(h, knnItem(NodeIdx(n), d), bestCap)
             h2 == knnSearch(NearChild(n, query), P, m, query, bestCap, h1)
         IN IF knnFar(n, m, query, h2, bestCap)
            THEN knnSearch(FarChild(n, query), P, m, query, bestCap, h2)
            ELSE h2

\* the items S in any order at all
RECURSIVE AnyOrder(_)
AnyOrder(S) ==
    IF S = {} THEN {<<>>}
    ELSE UNION { { <<x>> \o rest : rest \in AnyOrder(S \ {x}) } : x \in S }

\* the outcomes of sort.Slice(res, dist ascending) on the items S: the sort
\* is not stable, so items of equal distance come out in any order
RECURSIVE SortedByDist(_)
SortedByDist(S) ==
    IF S = {} THEN {<<>>}
    ELSE UNION { { <<x>> \o rest : rest \in SortedByDist(S \ {x}) } :
                 x \in { y \in S : \A z \in S : y.dist <= z.dist } }

Range(s) == { s[i] : i \in 1..Len(s) }

\* gonumKNearest(backend, query, k): the possible item sequences it returns
gonumKNearest(b, P, query, k) ==
    IF b = Nil \/ b.root = Nil \/ Len(query) # b.dim \/ k <= 0
    THEN {<<>>}
    ELSE SortedByDist(Range(knnSearch(b.root, P, b.metric, query, k, <<>>)))

\* if diff <= r { search(far) }
radiusFarStrict(n, query, r) == PlaneDiff(n, query) < r
radiusFar(n, query, r) == PlaneDiff(n, query) <= r

RECURSIVE radiusSearch(_, _, _, _, _, _)
radiusSearch(n, P, m, query, r, res) ==
    IF n = Nil THEN res
    ELSE LET d == Distance(m, query, P[NodeIdx(n) + 1].Coords)
             r1 == IF d <= OnScale(m, r)
                   THEN Append(res, knnItem(NodeIdx(n), d)) ELSE res
             r2 == radiusSearch(NearChild(n, query), P, m, query, r, r1)
         IN IF radiusFar(n, query, r)
            THEN radiusSearch(FarChild(n, query), P, m, query, r, r2)
            ELSE r2

\* gonumRadius(backend, query, r): the possible item sequences it returns
gonumRadius(b, P, query, r) ==
    IF b = Nil \/ b.root = Nil \/ Len(query) # b.dim \/ r < 0
    THEN {<<>>}
    ELSE SortedByDist(Range(radiusSearch(b.root, P, b.metric, query, r, <<>>)))

\* ------------------------------------------------------- linear engine
\* for i := range t.points { if d < bestDist {...} }, from position i on
RECURSIVE linearNearest(_, _, _, _, _)
linearNearest(P, m, query, i, best) ==
    IF i >= Len(P) THEN best
    ELSE LET d == Distance(m, query, P[i + 1].Coords)
         IN linearNearest(P, m, query, i + 1,
                          IF d < best[2] THEN <<i, d>> ELSE best)

Prefix(s, n) == SubSeq(s, 1, n)

\* tmp sorted and returned whole
linearKNearestUncut(P, m, query, k) ==
    SortedByDist({ knnItem(i, Distance(m, query, P[i + 1].Coords)) :
                      i \in 0..(Len(P) - 1) })

\* tmp sorted by sort.Slice, cut to min(k, len(tmp)): the possible outcomes
linearKNearest(P, m, query, k) ==
    LET tmp == { knnItem(i, Distance(m, query, P[i + 1].Coords)) :
                    i \in 0..(Len(P) - 1) }
        kk == IF k > Len(P) THEN Len(P) ELSE k
    IN { Prefix(s, kk) : s \in SortedByDist(tmp) }

\* sel with the boundary left out
linearRadiusOpen(P, m, query, r) ==
    SortedByDist({ x \in { knnItem(i, Distance(m, query, P[i + 1].Coords)) :
                              i \in 0..(Len(P) - 1) } :
                   x.dist < OnScale(m, r) })

\* sel (every point with d <= r) sorted by sort.Slice: the possible outcomes
linearRadius(P, m, query, r) ==
    LET sel == { x \in { knnItem(i, Distance(m, query, P[i + 1].Coords)) :
                            i \in 0..(Len(P) - 1) } :
                 x.dist <= OnScale(m, r) }
    IN SortedByDist(sel)

\* ------------------------------------------------------------- facade
VARIABLES
    built,        \* a *KDTree has been returned by a constructor
    points,       \* t.points
    dim,          \* t.dim
    metric,       \* t.metric
    idIndex,      \* t.idIndex
    backend,      \* t.backend
    backendData,  \* t.backendData: Nil or a kdBackend
    pts,          \* the caller's slice while the backend closure reads it
    pc,           \* "idle", or "returned" while the caller holds ret
    ret,          \* the value the last call returned
    analytics,    \* t.analytics: the counters of a TreeAnalytics
    peerAnalytics,\* t.peerAnalytics: hitCounts and the counters it points to
    mu,           \* peerAnalytics.mu: the goroutines holding the RWMutex
    threads       \* the goroutines inside a method of the analytics

vars == <<built, points, dim, metric, idIndex, backend, backendData, pts,
          pc, ret, analytics, peerAnalytics, mu, threads>>

tree == <<built, points, dim, metric, idIndex, backend, backendData, pts>>
stats == <<analytics, peerAnalytics>>
sync == <<mu, threads>>

Has(idx, id) == id \in DOMAIN idx
Put(idx, id, i) == [x \in (DOMAIN idx) \cup {id} |-> IF x = id THEN i ELSE idx[x]]
Drop(idx, id) == [x \in (DOMAIN idx) \ {id} |-> idx[x]]
EmptyIndex == [x \in {} |-> 0]

KDPoint(id, coords) == [ID |-> id, Coords |-> coords]

NoRet == [op |-> "none"]

\* ---------------------------------------------------------- analytics
\* The counters of a TreeAnalytics.  Durations and clock readings are not
\* modelled, so the atomic fields that hold them (TotalQueryTimeNs,
\* LastQueryTimeNs, MinQueryTimeNs, MaxQueryTimeNs, LastQueryAt,
\* LastRebuiltAt) are left out.
NewTreeAnalytics ==
    [QueryCount |-> 0, InsertCount |-> 0, DeleteCount |-> 0,
     BackendRebuildCnt |-> 0]

RecordQuery(a) == [a EXCEPT !.QueryCount = @ + 1]
RecordInsert(a) == [a EXCEPT !.InsertCount = @ + 1]
RecordDelete(a) == [a EXCEPT !.DeleteCount = @ + 1]
RecordRebuild(a) == [a EXCEPT !.BackendRebuildCnt = @ + 1]

\* A PeerAnalytics: hitCounts maps a peer id to the address of its
\* *atomic.Int64, counters holds the atomic.Int64 values by address
\* (1, 2, ... in the order they were allocated).  distanceSums and
\* lastSelected gain and lose their keys together with hitCounts, under
\* the same lock; the sums and times they hold are not modelled.
NewPeerAnalytics == [hitCounts |-> EmptyIndex, counters |-> <<>>]

\* p.hitCounts[peerID] = &atomic.Int64{}
Allocate(pa, peerID) ==
    [hitCounts |-> Put(pa.hitCounts, peerID, Len(pa.counters) + 1),
     counters |-> Append(pa.counters, 0)]

\* the body of RecordSelection under p.mu.Lock(): "if _, ok :=
\* p.hitCounts[peerID]; !ok { ... }"
AllocateUnchecked(pa, peerID) == Allocate(pa, peerID)
AllocateIfAbsent(pa, peerID) ==
    IF Has(pa.hitCounts, peerID) THEN pa ELSE Allocate(pa, peerID)

\* hc.Add(1) on the counter at address hc
Add(pa, hc) == [pa EXCEPT !.counters[hc] = @ + 1]

\* RecordSelection run by a goroutine that is alone with p
RecordSelection(pa, peerID) ==
    IF peerID = "" THEN pa
    ELSE LET tracked == AllocateIfAbsent(pa, peerID)
         IN Add(tracked, tracked.hitCounts[peerID])

\* "for i := range neighbors { RecordSelection(neighbors[i].ID, dists[i]) }"
RECURSIVE RecordSelections(_, _, _)
RecordSelections(pa, neighbors, i) ==
    IF i > Len(neighbors) THEN pa
    ELSE RecordSelections(RecordSelection(pa, neighbors[i].ID), neighbors,
                          i + 1)

\* PeerAnalytics.GetPeerStats(peerID).SelectionCount
SelectionCount(pa, peerID) ==
    IF Has(pa.hitCounts, peerID) THEN pa.counters[pa.hitCounts[peerID]]
    ELSE 0

\* the goroutines that call into the analytics, and a sync.RWMutex that
\* nobody holds
Goroutines == 1..MaxGoroutines
Unlocked == [readers |-> {}, writer |-> 0]
Idle == [op |-> "idle"]

Init ==
    /\ built = FALSE
    /\ points = <<>>
    /\ dim = 0
    /\ metric = "L2"
    /\ idIndex = EmptyIndex
    /\ backend = BackendLinear
    /\ backendData = Nil
    /\ pts = <<>>
    /\ pc = "idle"
    /\ ret = NoRet
    /\ analytics = NewTreeAnalytics
    /\ peerAnalytics = NewPeerAnalytics
    /\ mu = Unlocked
    /\ threads = [g \in Goroutines |-> Idle]

\* the slice b.coords reads
Captured(b) == IF b.coords = "pts" THEN pts ELSE points

\* NewKDTreeScan with the two checks of a point in the other order
RECURSIVE NewKDTreeScanIdFirst(_, _, _, _)
NewKDTreeScanIdFirst(in, d, i, idx) ==
    IF i >= Len(in) THEN [err |-> "nil", idIndex |-> idx]
    ELSE LET p == in[i + 1]
         IN IF p.ID # "" /\ Has(idx, p.ID)
            THEN [err |-> "ErrDuplicateID", idIndex |-> idx]
            ELSE IF Len(p.Coords) # d
            THEN [err |-> "ErrDimMismatch", idIndex |-> idx]
            ELSE NewKDTreeScanIdFirst(in, d, i + 1,
                    IF p.ID # "" THEN Put(idx, p.ID, i) ELSE idx)

\* NewKDTreeScan without the duplicate check
RECURSIVE NewKDTreeScanNoDup(_, _, _, _)
NewKDTreeScanNoDup(in, d, i, idx) ==
    IF i >= Len(in) THEN [err |-> "nil", idIndex |-> idx]
    ELSE LET p == in[i + 1]
         IN IF Len(p.Coords) # d
            THEN [err |-> "ErrDimMismatch", idIndex |-> idx]
            ELSE NewKDTreeScanNoDup(in, d, i + 1,
                    IF p.ID # "" THEN Put(idx, p.ID, i) ELSE idx)

\* the loop of NewKDTree over pts from position i, with the map so far:
\* the error it returns, or the finished map
RECURSIVE NewKDTreeScan(_, _, _, _)
NewKDTreeScan(in, d, i, idx) ==
    IF i >= Len(in) THEN [err |-> "nil", idIndex |-> idx]
    ELSE LET p == in[i + 1]
         IN IF Len(p.Coords) # d
            THEN [err |-> "ErrDimMismatch", idIndex |-> idx]
            ELSE IF p.ID # "" /\ Has(idx, p.ID)
            THEN [err |-> "ErrDuplicateID", idIndex |-> idx]
            ELSE NewKDTreeScan(in, d, i + 1,
                               IF p.ID # "" THEN Put(idx, p.ID, i) ELSE idx)

NewKDTreeCheck(in) ==
    IF Len(in) = 0 THEN [err |-> "ErrEmptyPoints", idIndex |-> EmptyIndex]
    ELSE IF Len(in[1].Coords) = 0
    THEN [err |-> "ErrZeroDim", idIndex |-> EmptyIndex]
    ELSE NewKDTreeScan(in, Len(in[1].Coords), 0, EmptyIndex)

\* the (backend, backendData) pairs a build attempt over slice P can leave
BackendAfterBuild(P, m, src) ==
    LET built_ == buildGonumBackend(P, m, src)
    IN IF built_ = {} THEN {<<BackendLinear, Nil>>}
       ELSE {<<BackendGonum, bd>> : bd \in built_}

NewKDTree(in, m, b) ==
    /\ pc = "idle"
    /\ ~built
    /\ LET chk == NewKDTreeCheck(in)
       IN IF chk.err # "nil"
          THEN /\ ret' = [op |-> "NewKDTree", in |-> in, err |-> chk.err,
                          tree |-> FALSE]
               /\ UNCHANGED <<tree, stats>>
          ELSE /\ \E bb \in (IF b = BackendGonum /\ hasGonum
                             THEN BackendAfterBuild(in, m, "pts")
                             ELSE {<<BackendLinear, Nil>>}) :
                    /\ backend' = bb[1]
                    /\ backendData' = bb[2]
                    /\ pts' = IF bb[2] # Nil THEN in ELSE <<>>
               /\ built' = TRUE
               /\ points' = in
               /\ dim' = Len(in[1].Coords)
               /\ metric' = m
               /\ idIndex' = chk.idIndex
               /\ ret' = [op |-> "NewKDTree", in |-> in, err |-> "nil",
                          tree |-> TRUE]
               /\ analytics' = NewTreeAnalytics
               /\ peerAnalytics' = NewPeerAnalytics
    /\ pc' = "returned"
    /\ UNCHANGED sync

NewKDTreeFromDim(d, m, b) ==
    /\ pc = "idle"
    /\ ~built
    /\ IF d <= 0
       THEN /\ ret' = [op |-> "NewKDTreeFromDim", d |-> d,
                       err |-> "ErrZeroDim", tree |-> FALSE]
            /\ UNCHANGED <<tree, stats>>
       ELSE /\ built' = TRUE
            /\ points' = <<>>
            /\ dim' = d
            /\ metric' = m
            /\ idIndex' = EmptyIndex
            /\ backend' = IF b = BackendGonum /\ ~hasGonum
                          THEN BackendLinear ELSE b
            /\ backendData' = Nil
            /\ pts' = <<>>
            /\ ret' = [op |-> "NewKDTreeFromDim", d |-> d, err |-> "nil",
                       tree |-> TRUE]
            /\ analytics' = NewTreeAnalytics
            /\ peerAnalytics' = NewPeerAnalytics
    /\ pc' = "returned"
    /\ UNCHANGED sync

\* a rebuild that does not look at t.backend
RebuildAlways(P) ==
    IF hasGonum
    THEN \E bb \in BackendAfterBuild(P, metric, "points") :
            /\ backend' = bb[1]
            /\ backendData' = bb[2]
            /\ pts' = <<>>
    ELSE UNCHANGED <<backend, backendData, pts>>

\* a mutation that keeps the tree it had
RebuildNever(P) == UNCHANGED <<backend, backendData, pts>>

\* "Rebuild backend if using Gonum" after a mutation left the points at P
Rebuild(P) ==
    IF backend = BackendGonum /\ hasGonum
    THEN \E bb \in BackendAfterBuild(P, metric, "points") :
            /\ backend' = bb[1]
            /\ backendData' = bb[2]
            /\ pts' = <<>>
    ELSE UNCHANGED <<backend, backendData, pts>>

\* "if bd, err := buildGonumBackend(...); err == nil { t.backendData = bd;
\* t.analytics.RecordRebuild() }" as Rebuild leaves it
rebuildRecorded(a) ==
    IF backend = BackendGonum /\ hasGonum /\ backend' = BackendGonum
    THEN RecordRebuild(a) ELSE a

\* the two early returns of Insert
insertRejectedDimOnly(p) == Len(p.Coords) # dim
insertRejected(p) ==
    Len(p.Coords) # dim \/ (p.ID # "" /\ Has(idIndex, p.ID))

Insert(p) ==
    /\ pc = "idle"
    /\ built
    /\ Len(points) < MaxPoints
    /\ IF insertRejected(p)
       THEN /\ ret' = [op |-> "Insert", p |-> p, ok |-> FALSE]
            /\ UNCHANGED <<tree, analytics>>
       ELSE /\ points' = Append(points, p)
            /\ idIndex' = IF p.ID # "" THEN Put(idIndex, p.ID, Len(points))
                          ELSE idIndex
            /\ Rebuild(Append(points, p))
            /\ analytics' = rebuildRecorded(RecordInsert(analytics))
            /\ ret' = [op |-> "Insert", p |-> p, ok |-> TRUE]
            /\ UNCHANGED <<built, dim, metric>>
    /\ pc' = "returned"
    /\ UNCHANGED <<peerAnalytics, sync>>

\* removal that drops the last slot without moving it
SwapDeleteNoSwap(P, idx) == Prefix(P, Len(P) - 1)
\* removal that closes the gap and keeps the order
SwapDeleteShift(P, idx) ==
    [i \in 1..(Len(P) - 1) |-> IF i <= idx THEN P[i] ELSE P[i + 1]]

\* t.points[idx] = t.points[last]; t.points = t.points[:last]
SwapDelete(P, idx) ==
    LET last == Len(P) - 1
    IN Prefix([P EXCEPT ![idx + 1] = P[last + 1]], last)

\* if t.points[idx].ID != "" { t.idIndex[t.points[idx].ID] = idx }
remapMovedNever(index, moved, idx) == index
remapMoved(index, moved, idx) ==
    IF moved.ID # "" THEN Put(index, moved.ID, idx) ELSE index

DeleteByID(id) ==
    /\ pc = "idle"
    /\ built
    /\ IF id = "" \/ ~Has(idIndex, id)
       THEN /\ ret' = [op |-> "DeleteByID", id |-> id, ok |-> FALSE]
            /\ UNCHANGED <<tree, analytics>>
       ELSE LET idx == idIndex[id]
                moved == points[Len(points)]
                remap == remapMoved(idIndex, moved, idx)
            IN /\ points' = SwapDelete(points, idx)
               /\ idIndex' = Drop(remap, id)
               /\ Rebuild(SwapDelete(points, idx))
               /\ analytics' = rebuildRecorded(RecordDelete(analytics))
               /\ ret' = [op |-> "DeleteByID", id |-> id, ok |-> TRUE]
               /\ UNCHANGED <<built, dim, metric>>
    /\ pc' = "returned"
    /\ UNCHANGED <<peerAnalytics, sync>>

\* the value a query returns: the items (position, distance) it selected,
\* the points at those positions, and the engine that produced them
QueryRet(op, query, k, r, items, ok, via) ==
    [op |-> op, query |-> query, k |-> k, r |-> r, ok |-> ok, via |-> via,
     idxs |-> [i \in 1..Len(items) |-> items[i].idx],
     dists |-> [i \in 1..Len(items) |-> items[i].dist],
     neighbors |-> [i \in 1..Len(items) |-> points[items[i].idx + 1]]]

UsesBackend == backend = BackendGonum /\ backendData # Nil

\* a query whose pruning engine returned nothing demotes the facade
queryFrameDemoting ==
    /\ backend' = IF UsesBackend /\ ret'.via = "linear" THEN BackendLinear
                  ELSE backend
    /\ UNCHANGED <<built, points, dim, metric, idIndex, backendData, pts>>

\* Nearest, KNearest and Radius assign no field of t, also on the path
\* "fall through to linear scan if backend didn't return a result"
queryFrame == UNCHANGED tree

\* what a query that returns ret' leaves in the analytics: the deferred
\* RecordQuery of a call that passed the first "if ... return" and one
\* RecordSelection for each neighbor it returns
queryRecordsRejected ==
    /\ analytics' = RecordQuery(analytics)
    /\ peerAnalytics' = RecordSelections(peerAnalytics, ret'.neighbors, 1)
queryRecords ==
    /\ analytics' = IF ret'.via = "rejected" THEN analytics
                    ELSE RecordQuery(analytics)
    /\ peerAnalytics' = RecordSelections(peerAnalytics, ret'.neighbors, 1)

\* KDTree.Nearest: the (items, ok, via) it can return
NearestOutcomes(query) ==
    IF Len(query) # dim \/ Len(points) = 0
    THEN {<<(<<>>), FALSE, "rejected">>}
    ELSE LET g == IF UsesBackend
                  THEN gonumNearest(backendData, Captured(backendData), query)
                  ELSE [idx |-> -1, dist |-> 0, ok |-> FALSE]
         IN IF UsesBackend /\ g.ok /\ g.idx >= 0 /\ g.idx < Len(points)
            THEN {<<(<<knnItem(g.idx, g.dist)>>), TRUE, "gonum">>}
            ELSE LET best == linearNearest(points, metric, query, 0,
                                           <<-1, Sentinel(metric)>>)
                 IN IF best[1] < 0
                    THEN {<<(<<>>), FALSE, "linear">>}
                    ELSE {<<(<<knnItem(best[1], best[2])>>), TRUE, "linear">>}

Nearest(query) ==
    /\ pc = "idle"
    /\ built
    /\ \E o \in NearestOutcomes(query) :
          ret' = QueryRet("Nearest", query, 1, 0, o[1], o[2], o[3])
    /\ pc' = "returned"
    /\ queryRecords
    /\ queryFrame
    /\ UNCHANGED sync

\* KDTree.KNearest: the (items, via) it can return
KNearestOutcomes(query, k) ==
    IF k <= 0 \/ Len(query) # dim \/ Len(points) = 0
    THEN {<<(<<>>), "rejected">>}
    ELSE LET g == IF UsesBackend
                  THEN gonumKNearest(backendData, Captured(backendData),
                                     query, k)
                  ELSE {<<>>}
         IN { <<s, "gonum">> : s \in { x \in g : Len(x) > 0 } }
            \cup (IF \E x \in g : Len(x) = 0
                  THEN { <<s, "linear">> :
                            s \in linearKNearest(points, metric, query, k) }
                  ELSE {})

KNearest(query, k) ==
    /\ pc = "idle"
    /\ built
    /\ \E o \in KNearestOutcomes(query, k) :
          ret' = QueryRet("KNearest", query, k, 0, o[1], Len(o[1]) > 0, o[2])
    /\ pc' = "returned"
    /\ queryRecords
    /\ queryFrame
    /\ UNCHANGED sync

\* KDTree.Radius: the (items, via) it can return
RadiusOutcomes(query, r) ==
    IF r < 0 \/ Len(query) # dim \/ Len(points) = 0
    THEN {<<(<<>>), "rejected">>}
    ELSE LET g == IF UsesBackend
                  THEN gonumRadius(backendData, Captured(backendData),
                                   query, r)
                  ELSE {<<>>}
         IN { <<s, "gonum">> : s \in { x \in g : Len(x) > 0 } }
            \cup (IF \E x \in g : Len(x) = 0
                  THEN { <<s, "linear">> :
                            s \in linearRadius(points, metric, query, r) }
                  ELSE {})

Radius(query, r) ==
    /\ pc = "idle"
    /\ built
    /\ \E o \in RadiusOutcomes(query, r) :
          ret' = QueryRet("Radius", query, 0, r, o[1], Len(o[1]) > 0, o[2])
    /\ pc' = "returned"
    /\ queryRecords
    /\ queryFrame
    /\ UNCHANGED sync

\* KDTree.Points: result := make(...); copy(result, t.points).  copy copies
\* each KDPoint struct, whose Coords field is a slice header: out[i].Coords
\* and t.points[i].Coords are one array until out[i] is replaced.  shared
\* is the set of positions of out for which that is so.
Points ==
    /\ pc = "idle"
    /\ built
    /\ ret' = [op |-> "Points", out |-> points,
               shared |-> 0..(Len(points) - 1)]
    /\ pc' = "returned"
    /\ UNCHANGED <<tree, stats, sync>>

\* the caller holding the slice Points returned assigns out[i] = p
ReplaceReturned(i, p) ==
    /\ pc = "returned" /\ ret.op = "Points"
    /\ i \in 0..(Len(ret.out) - 1)
    /\ ret' = [ret EXCEPT !.out[i + 1] = p, !.shared = @ \ {i}]
    /\ UNCHANGED <<tree, pc, stats, sync>>

\* the caller assigns out[i].ID = id: a field of the caller's own struct
WriteReturnedID(i, id) ==
    /\ pc = "returned" /\ ret.op = "Points"
    /\ i \in 0..(Len(ret.out) - 1)
    /\ ret' = [ret EXCEPT !.out[i + 1].ID = id]
    /\ UNCHANGED <<tree, pc, stats, sync>>

\* the caller assigns out[i].Coords[j] = v: a write into the array behind
\* the slice header, which t.points[i].Coords (and, while the backend
\* closure still reads the slice NewKDTree was given, that slice's i-th
\* point) shares when i is in shared
WriteReturnedCoord(i, j, v) ==
    /\ pc = "returned" /\ ret.op = "Points"
    /\ i \in 0..(Len(ret.out) - 1)
    /\ j \in 0..(Len(ret.out[i + 1].Coords) - 1)
    /\ ret' = [ret EXCEPT !.out[i + 1].Coords[j + 1] = v]
    /\ IF i \in ret.shared
       THEN /\ points' = [points EXCEPT ![i + 1].Coords[j + 1] = v]
            /\ pts' = IF i < Len(pts)
                      THEN [pts EXCEPT ![i + 1].Coords[j + 1] = v] ELSE pts
       ELSE UNCHANGED <<points, pts>>
    /\ UNCHANGED <<built, dim, metric, idIndex, backend, backendData, pc,
                   stats, sync>>

\* the caller takes the returned value and goes on to its next call
Continue ==
    /\ pc = "returned"
    /\ pc' = "idle"
    /\ ret' = NoRet
    /\ UNCHANGED <<tree, stats, sync>>

\* KDTree.ResetAnalytics: t.analytics.Reset() and t.peerAnalytics.Reset(),
\* called while no goroutine is inside the analytics
ResetAnalytics ==
    /\ pc = "idle"
    /\ built
    /\ analytics' = NewTreeAnalytics
    /\ peerAnalytics' = NewPeerAnalytics
    /\ ret' = [op |-> "ResetAnalytics"]
    /\ pc' = "returned"
    /\ UNCHANGED <<tree, sync>>

\* the caller of the index specifications: it takes the returned value,
\* calls t.ResetAnalytics() on the tree it holds, and goes on to its next
\* call
ContinueReset ==
    /\ pc = "returned"
    /\ pc' = "idle"
    /\ ret' = NoRet
    /\ analytics' = NewTreeAnalytics
    /\ peerAnalytics' = NewPeerAnalytics
    /\ UNCHANGED <<tree, sync>>

\* ------------------------------------------------------------- inputs
\* a point that no tree of dimension d accepts
Odd(d) == {KDPoint("", <<>>), KDPoint("b", Mismatch(d))}
Pool(d) == {KDPoint(id, c) : id \in IDs, c \in CoordPool(d)}

RECURSIVE SeqsUpTo(_, _)
SeqsUpTo(S, n) ==
    IF n = 0 THEN {<<>>}
    ELSE LET shorter == SeqsUpTo(S, n - 1)
         IN shorter \cup
            { Append(s, x) : s \in { y \in shorter : Len(y) = n - 1 }, x \in S }

Inputs ==
    { s \in UNION { SeqsUpTo(Pool(d) \cup Odd(d), 3) : d \in Dims } :
        Len(s) \in InitLens }

\* the arguments the caller passes to the queries of a tree of dimension d
NearestArgs(d) == QueryPool(d) \cup {Mismatch(d)}
KNearestArgs(d) == (QueryPool(d) \X Ks) \cup {<<Mismatch(d), 1>>}
RadiusArgs(d) == (QueryPool(d) \X Rs) \cup {<<Mismatch(d), 1>>}

Next ==
    \/ /\ ~built
       /\ \E in \in Inputs, m \in Metrics \cup CosineMetrics, b \in Backends :
             NewKDTree(in, m, b)
    \/ /\ ~built
       /\ \E d \in {-1, 0} \cup Dims, m \in Metrics \cup CosineMetrics,
             b \in Backends :
             NewKDTreeFromDim(d, m, b)
    \/ /\ built /\ pc = "idle"
       /\ \E p \in Pool(dim) \cup Odd(dim) : Insert(p)
    \/ /\ built /\ pc = "idle"
       /\ \E id \in IDs : DeleteByID(id)
    \/ /\ built /\ pc = "idle" /\ metric \in Metrics
       /\ \E q \in NearestArgs(dim) : Nearest(q)
    \/ /\ built /\ pc = "idle" /\ metric \in Metrics
       /\ \E a \in KNearestArgs(dim) : KNearest(a[1], a[2])
    \/ /\ built /\ pc = "idle" /\ metric \in Metrics
       /\ \E a \in RadiusArgs(dim) : Radius(a[1], a[2])
    \/ ContinueReset

Spec == Init /\ [][Next]_vars

\* the caller that also takes Points() and writes to what it was given:
\* one-dimensional trees of at most two points, the element it assigns, and
\* the values it writes into an id and into a coordinate
AliasInputs ==
    { in \in Inputs : Len(in) \in 1..2 /\
                      \A i \in 1..Len(in) : Len(in[i].Coords) = 1 }
Replacement == KDPoint("b", <<2>>)
WrittenIDs == {"a", "b"}
WrittenValues == {0, 2}

NextAlias ==
    \/ /\ ~built
       /\ \E in \in AliasInputs, b \in Backends : NewKDTree(in, "L2", b)
    \/ /\ built /\ pc = "idle"
       /\ \E q \in NearestArgs(dim) : Nearest(q)
    \/ /\ built /\ pc = "idle"
       /\ Points
    \/ /\ pc = "returned" /\ ret.op = "Points"
       /\ \E i \in 0..(Len(ret.out) - 1) : ReplaceReturned(i, Replacement)
    \/ /\ pc = "returned" /\ ret.op = "Points"
       /\ \E i \in 0..(Len(ret.out) - 1), id \in WrittenIDs :
             WriteReturnedID(i, id)
    \/ /\ pc = "returned" /\ ret.op = "Points"
       /\ \E i \in 0..(Len(ret.out) - 1), j \in 0..(dim - 1),
             v \in WrittenValues : WriteReturnedCoord(i, j, v)
    \/ ContinueReset

SpecAlias == Init /\ [][NextAlias]_vars

\* the facades that start empty: NewKDTreeFromDim, then Insert and Nearest
NextFromDim ==
    \/ /\ ~built
       /\ \E d \in {-1, 0} \cup Dims, m \in Metrics \cup CosineMetrics,
             b \in Backends :
             NewKDTreeFromDim(d, m, b)
    \/ /\ built /\ pc = "idle"
       /\ \E p \in Pool(dim) \cup Odd(dim) : Insert(p)
    \/ /\ built /\ pc = "idle" /\ metric \in Metrics
       /\ \E q \in NearestArgs(dim) : Nearest(q)
    \/ ContinueReset

SpecFromDim == Init /\ [][NextFromDim]_vars

\* a caller of the metrics alone: m.Distance(a, b) on equal-length vectors
Measure(m, a, b) ==
    /\ pc = "idle"
    /\ ret' = [op |-> "Distance", m |-> m, a |-> a, b |-> b,
               d |-> Distance(m, a, b)]
    /\ pc' = "returned"
    /\ UNCHANGED <<tree, stats, sync>>

\* finite coordinates, near and as far apart as float64 allows
MeasuredValues == {-MaxFloat64, -1, 0, 2, MaxFloat64}
MeasuredVectors(d) ==
    IF d = 1 THEN { <<x>> : x \in MeasuredValues }
    ELSE { <<x, y>> : x, y \in MeasuredValues }

NextDistance ==
    \/ /\ pc = "idle"
       /\ \E m \in Metrics, d \in Dims :
             \E a, b \in MeasuredVectors(d) : Measure(m, a, b)
    \/ Continue

SpecDistance == Init /\ [][NextDistance]_vars

\* ------------------------------------------------ goroutines on TreeAnalytics
\* the atomic fields in the order Reset stores them and in the order
\* Snapshot loads them
ResetOrder ==
    <<"QueryCount", "InsertCount", "DeleteCount", "BackendRebuildCnt">>
SnapshotOrder ==
    <<"QueryCount", "InsertCount", "DeleteCount", "BackendRebuildCnt">>

Running(op) == { g \in Goroutines : threads[g].op = op }
Alone == \A g \in Goroutines : threads[g] = Idle

\* a goroutine that is alone with the TreeAnalytics calls RecordQuery,
\* RecordInsert, RecordDelete or RecordRebuild
Record(kind) ==
    /\ Alone
    /\ pc = "idle"
    /\ analytics' = CASE kind = "Query" -> RecordQuery(analytics)
                      [] kind = "Insert" -> RecordInsert(analytics)
                      [] kind = "Delete" -> RecordDelete(analytics)
                      [] kind = "Rebuild" -> RecordRebuild(analytics)
    /\ \A f \in DOMAIN analytics : analytics'[f] <= MaxCount
    /\ UNCHANGED <<tree, pc, ret, peerAnalytics, sync>>

\* "go a.Reset()": goroutine g enters Reset; before is what a caller that
\* loaded the counters just before the call holds
GoReset(g) ==
    /\ threads[g] = Idle
    /\ Running("Reset") = {}
    /\ threads' = [threads EXCEPT
                     ![g] = [op |-> "Reset", pc |-> 1, before |-> analytics]]
    /\ UNCHANGED <<tree, pc, ret, stats, mu>>

\* the next a.X.Store(0) of Reset
ResetStore(g) ==
    /\ threads[g].op = "Reset"
    /\ threads[g].pc <= Len(ResetOrder)
    /\ analytics' = [analytics EXCEPT ![ResetOrder[threads[g].pc]] = 0]
    /\ threads' = [threads EXCEPT ![g].pc = @ + 1]
    /\ UNCHANGED <<tree, pc, ret, peerAnalytics, mu>>

\* "go a.Snapshot()": goroutine g enters Snapshot with nothing loaded yet
GoSnapshot(g) ==
    /\ threads[g] = Idle
    /\ Running("Snapshot") = {}
    /\ threads' = [threads EXCEPT
                     ![g] = [op |-> "Snapshot", pc |-> 1, out |-> EmptyIndex]]
    /\ UNCHANGED <<tree, pc, ret, stats, mu>>

\* the next a.X.Load() of Snapshot, into the field of the value it returns
SnapshotLoad(g) ==
    /\ threads[g].op = "Snapshot"
    /\ threads[g].pc <= Len(SnapshotOrder)
    /\ LET f == SnapshotOrder[threads[g].pc]
       IN threads' = [threads EXCEPT
                        ![g].out = Put(@, f, analytics[f]),
                        ![g].pc = @ + 1]
    /\ UNCHANGED <<tree, pc, ret, stats, mu>>

\* a goroutine has returned from the method it entered
Finished(g) ==
    \/ threads[g].op = "Reset" /\ threads[g].pc > Len(ResetOrder)
    \/ threads[g].op = "Snapshot" /\ threads[g].pc > Len(SnapshotOrder)

\* the caller waits for the goroutines it started and drops their results
Wait ==
    /\ ~Alone
    /\ \A g \in Goroutines : threads[g] = Idle \/ Finished(g)
    /\ threads' = [g \in Goroutines |-> Idle]
    /\ UNCHANGED <<tree, pc, ret, stats, mu>>

RecordKinds == {"Query", "Insert", "Delete", "Rebuild"}

NextReset ==
    \/ \E kind \in RecordKinds : Record(kind)
    \/ \E g \in Goroutines : GoReset(g)
    \/ \E g \in Goroutines : ResetStore(g)
    \/ \E g \in Goroutines : GoSnapshot(g)
    \/ \E g \in Goroutines : SnapshotLoad(g)
    \/ Wait

SpecReset == Init /\ [][NextReset]_vars

\* ------------------------------------------- gonumKNearest, step by step
\* One call of KNearest on the pruning engine as the steps of its search
\* closure: ret holds the heap h and the call stack of search, a frame
\* being the node n and the place the call is at ("visit": at its first
\* line; "far": search(near) has returned).
Frame(n, at) == [n |-> n, at |-> at]
Top(stack) == stack[Len(stack)]
Pop(stack) == SubSeq(stack, 1, Len(stack) - 1)

\* the item search builds for node n: knnItem{idx: n.idx, dist: d}
Visited(n, query) ==
    knnItem(NodeIdx(n),
            Distance(backendData.metric, query,
                     Captured(backendData)[NodeIdx(n) + 1].Coords))

\* KNearest passes its checks and gonumKNearest calls search(b.root)
KNearestBegin(query, k) ==
    /\ pc = "idle"
    /\ built
    /\ ~(k <= 0 \/ Len(query) # dim \/ Len(points) = 0)
    /\ UsesBackend
    /\ backendData.root # Nil /\ Len(query) = backendData.dim
    /\ ret' = [op |-> "search", query |-> query, k |-> k, h |-> <<>>,
               stack |-> <<Frame(backendData.root, "visit")>>]
    /\ pc' = "searching"
    /\ UNCHANGED <<tree, stats, sync>>

\* search(n) from its first line to the call search(near): "if n == nil
\* { return }", the push or the replacement, and the choice of near
searchVisit ==
    /\ pc = "searching"
    /\ ret.stack # <<>>
    /\ Top(ret.stack).at = "visit"
    /\ LET n == Top(ret.stack).n
       IN IF n = Nil
          THEN ret' = [ret EXCEPT !.stack = Pop(@)]
          ELSE ret' = [ret EXCEPT
                         !.h = knnVisit(@, Visited(n, ret.query), ret.k),
                         !.stack = Pop(@) \o
                                   <<Frame(n, "far"),
                                     Frame(NearChild(n, ret.query), "visit")>>]
    /\ UNCHANGED <<tree, pc, stats, sync>>

\* search(n) after search(near): the threshold, "if diff <= threshold
\* { search(far) }", and the return
searchFar ==
    /\ pc = "searching"
    /\ ret.stack # <<>>
    /\ Top(ret.stack).at = "far"
    /\ LET n == Top(ret.stack).n
       IN ret' = [ret EXCEPT
                    !.stack = IF knnFar(n, backendData.metric, ret.query,
                                        ret.h, ret.k)
                              THEN Pop(@) \o
                                   <<Frame(FarChild(n, ret.query), "visit")>>
                              ELSE Pop(@)]
    /\ UNCHANGED <<tree, pc, stats, sync>>

\* search(b.root) has returned: gonumKNearest sorts what the heap holds and
\* KNearest returns it (a heap left empty would send it to the linear scan)
KNearestEnd ==
    /\ pc = "searching"
    /\ ret.stack = <<>>
    /\ \E s \in (IF ret.h # <<>> THEN SortedByDist(Range(ret.h))
                 ELSE linearKNearest(points, metric, ret.query, ret.k)) :
          ret' = QueryRet("KNearest", ret.query, ret.k, 0, s, Len(s) > 0,
                          IF ret.h # <<>> THEN "gonum" ELSE "linear")
    /\ pc' = "returned"
    /\ queryRecords
    /\ queryFrame
    /\ UNCHANGED sync

\* the trees whose KNearest is followed step by step
NextSearch ==
    \/ /\ ~built
       /\ \E in \in Inputs, m \in Metrics : NewKDTree(in, m, BackendGonum)
    \/ /\ built /\ pc = "idle"
       /\ \E a \in KNearestArgs(dim) : KNearestBegin(a[1], a[2])
    \/ searchVisit
    \/ searchFar
    \/ KNearestEnd
    \/ ContinueReset

SpecSearch == Init /\ [][NextSearch]_vars

\* the facades built with WithBackend(BackendGonum) and a metric the pruning
\* engine supports
NextGonum ==
    \/ /\ ~built
       /\ \E in \in Inputs, m \in Metrics : NewKDTree(in, m, BackendGonum)
    \/ /\ ~built
       /\ \E d \in {-1, 0} \cup Dims, m \in Metrics :
             NewKDTreeFromDim(d, m, BackendGonum)
    \/ /\ built /\ pc = "idle"
       /\ \E p \in Pool(dim) \cup Odd(dim) : Insert(p)
    \/ /\ built /\ pc = "idle"
       /\ \E id \in IDs : DeleteByID(id)
    \/ /\ built /\ pc = "idle"
       /\ \E q \in NearestArgs(dim) : Nearest(q)
    \/ ContinueReset

SpecGonum == Init /\ [][NextGonum]_vars

\* the caller that keeps the slice it gave to NewKDTree and assigns
\* in[i] = p to it afterwards.  t.points is a copy of that slice; the coords
\* closure of the backend NewKDTree built reads the slice itself (pts).
\* before is what t.Points() held just before the assignment.
ReplaceInput(i, p) ==
    /\ pc = "idle"
    /\ built
    /\ i \in 0..(Len(pts) - 1)
    /\ pts' = [pts EXCEPT ![i + 1] = p]
    /\ ret' = [op |-> "ReplaceInput", i |-> i, p |-> p, before |-> points]
    /\ pc' = "returned"
    /\ UNCHANGED <<built, points, dim, metric, idIndex, backend, backendData,
                   stats, sync>>

NextInput ==
    \/ /\ ~built
       /\ \E in \in AliasInputs, m \in Metrics, b \in Backends :
             NewKDTree(in, m, b)
    \/ /\ built /\ pc = "idle"
       /\ \E i \in 0..(Len(pts) - 1), p \in Pool(dim) : ReplaceInput(i, p)
    \/ /\ built /\ pc = "idle"
       /\ \E q \in NearestArgs(dim) : Nearest(q)
    \/ /\ built /\ pc = "idle"
       /\ \E a \in KNearestArgs(dim) : KNearest(a[1], a[2])
    \/ /\ built /\ pc = "idle"
       /\ \E a \in RadiusArgs(dim) : Radius(a[1], a[2])
    \/ ContinueReset

SpecInput == Init /\ [][NextInput]_vars

\* the caller that lets the counters of t.analytics add up: one-dimensional
\* trees under either backend, every call of the index, ResetAnalytics, and
\* no call that would take a counter past MaxCount
NextAnalytics ==
    \/ /\ ~built
       /\ \E in \in AliasInputs, b \in Backends : NewKDTree(in, "L1", b)
    \/ /\ ~built
       /\ \E b \in Backends : NewKDTreeFromDim(1, "L1", b)
    \/ /\ built /\ pc = "idle" /\ analytics.InsertCount < MaxCount
       /\ \E p \in Pool(dim) \cup Odd(dim) : Insert(p)
    \/ /\ built /\ pc = "idle" /\ analytics.DeleteCount < MaxCount
       /\ \E id \in IDs : DeleteByID(id)
    \/ /\ built /\ pc = "idle" /\ analytics.QueryCount < MaxCount
       /\ \E q \in NearestArgs(dim) : Nearest(q)
    \/ /\ built /\ pc = "idle" /\ analytics.QueryCount < MaxCount
       /\ \E a \in KNearestArgs(dim) : KNearest(a[1], a[2])
    \/ /\ built /\ pc = "idle" /\ analytics.QueryCount < MaxCount
       /\ \E a \in RadiusArgs(dim) : Radius(a[1], a[2])
    \/ /\ built /\ pc = "idle"
       /\ ResetAnalytics
    \/ Continue

SpecAnalytics == Init /\ [][NextAnalytics]_vars

\* ------------------------------------------------ goroutines on PeerAnalytics
\* Goroutine g runs "for n := 0; n < MaxCount; n++ { p.RecordSelection(
\* peerID, d) }".  at is the line of RecordSelection it is about to run, hok
\* and hc what it read from p.hitCounts (hc = 0: nil), n its loop counter.
\* The CAS loop on ds and ls.Store, which follow hc.Add(1) and touch only
\* the sums and times that are not modelled, are left out.  The caller
\* starts goroutines, waits until none is inside RecordSelection, reads
\* GetPeerStats, and lets them go on once it has taken the value.
GoRecordSelections(g, peerID) ==
    /\ pc = "idle"
    /\ threads[g] = Idle
    /\ threads' = [threads EXCEPT
                     ![g] = [op |-> "RecordSelection", at |-> "call",
                             peerID |-> peerID, hok |-> FALSE, hc |-> 0,
                             n |-> 0]]
    /\ UNCHANGED <<tree, pc, ret, stats, mu>>

At(g, at) == threads[g].op = "RecordSelection" /\ threads[g].at = at

\* the call and "if peerID == "" { return }"
rsCall(g) ==
    /\ pc = "idle"
    /\ At(g, "call")
    /\ threads[g].n < MaxCount
    /\ threads' = IF threads[g].peerID = ""
                  THEN [threads EXCEPT ![g].n = @ + 1]
                  ELSE [threads EXCEPT ![g].at = "RLock"]
    /\ UNCHANGED <<tree, pc, ret, stats, mu>>

\* p.mu.RLock(): waits while a goroutine holds the write lock
rsRLock(g) ==
    /\ At(g, "RLock")
    /\ mu.writer = 0
    /\ mu' = [mu EXCEPT !.readers = @ \cup {g}]
    /\ threads' = [threads EXCEPT ![g].at = "read"]
    /\ UNCHANGED <<tree, pc, ret, stats>>

\* hc, hok := p.hitCounts[peerID] (and ds, ls alike)
rsRead(g) ==
    /\ At(g, "read")
    /\ LET hok == Has(peerAnalytics.hitCounts, threads[g].peerID)
       IN threads' = [threads EXCEPT
                        ![g].hok = hok,
                        ![g].hc = IF hok
                                  THEN peerAnalytics.hitCounts[threads[g].peerID]
                                  ELSE 0,
                        ![g].at = "RUnlock"]
    /\ UNCHANGED <<tree, pc, ret, stats, mu>>

\* p.mu.RUnlock() and "if !hok || !dok || !lok"
rsRUnlock(g) ==
    /\ At(g, "RUnlock")
    /\ mu' = [mu EXCEPT !.readers = @ \ {g}]
    /\ threads' = [threads EXCEPT
                     ![g].at = IF threads[g].hok THEN "Add" ELSE "Lock"]
    /\ UNCHANGED <<tree, pc, ret, stats>>

\* p.mu.Lock(): waits while any goroutine holds the lock
rsLock(g) ==
    /\ At(g, "Lock")
    /\ mu = Unlocked
    /\ mu' = [mu EXCEPT !.writer = g]
    /\ threads' = [threads EXCEPT ![g].at = "create"]
    /\ UNCHANGED <<tree, pc, ret, stats>>

\* under the write lock: create what is still missing, then
\* hc = p.hitCounts[peerID]
rsCreate(g) ==
    /\ At(g, "create")
    /\ peerAnalytics' = AllocateIfAbsent(peerAnalytics, threads[g].peerID)
    /\ threads' = [threads EXCEPT
                     ![g].hc = peerAnalytics'.hitCounts[threads[g].peerID],
                     ![g].at = "Unlock"]
    /\ UNCHANGED <<tree, pc, ret, analytics, mu>>

\* p.mu.Unlock()
rsUnlock(g) ==
    /\ At(g, "Unlock")
    /\ mu' = [mu EXCEPT !.writer = 0]
    /\ threads' = [threads EXCEPT ![g].at = "Add"]
    /\ UNCHANGED <<tree, pc, ret, stats>>

\* hc.Add(1), and the return to the loop
rsAdd(g) ==
    /\ At(g, "Add")
    /\ peerAnalytics' = Add(peerAnalytics, threads[g].hc)
    /\ threads' = [threads EXCEPT ![g].at = "call", ![g].n = @ + 1]
    /\ UNCHANGED <<tree, pc, ret, analytics, mu>>

\* no goroutine is inside RecordSelection
Quiet == \A g \in Goroutines : threads[g] = Idle \/ At(g, "call")

\* PeerAnalytics.GetPeerStats(peerID), called when the goroutines have
\* returned from their calls: the read under p.mu.RLock()
GetPeerStats(peerID) ==
    /\ pc = "idle"
    /\ Quiet
    /\ mu.writer = 0
    /\ ret' = [op |-> "GetPeerStats", PeerID |-> peerID,
               SelectionCount |-> SelectionCount(peerAnalytics, peerID)]
    /\ pc' = "returned"
    /\ UNCHANGED <<tree, stats, sync>>

NextPeers ==
    \/ \E g \in Goroutines, id \in IDs : GoRecordSelections(g, id)
    \/ \E g \in Goroutines : rsCall(g)
    \/ \E g \in Goroutines : rsRLock(g)
    \/ \E g \in Goroutines : rsRead(g)
    \/ \E g \in Goroutines : rsRUnlock(g)
    \/ \E g \in Goroutines : rsLock(g)
    \/ \E g \in Goroutines : rsCreate(g)
    \/ \E g \in Goroutines : rsUnlock(g)
    \/ \E g \in Goroutines : rsAdd(g)
    \/ \E id \in IDs : GetPeerStats(id)
    \/ Continue

SpecPeers == Init /\ [][NextPeers]_vars

\* ------------------------------------------------------------- claims
Returned(op) == pc = "returned" /\ ret.op = op
Answered(op) == Returned(op) /\ ret.via # "rejected"

\* what a query returned, as a set of (position, point, distance)
Hits(r) == { <<r.idxs[i], r.neighbors[i], r.dists[i]>> : i \in 1..Len(r.idxs) }
\* what a linear-backend facade holding the same points can return
LinearHits(s) == { <<s[i].idx, points[s[i].idx + 1], s[i].dist>> : i \in 1..Len(s) }
DistsOf(s) == [i \in 1..Len(s) |-> s[i].dist]
DistTo(query, i) == Distance(metric, query, points[i + 1].Coords)
Positions == 0..(Len(points) - 1)

C4_NearestParity ==
    (Answered("Nearest") /\ UsesBackend) =>
        LET best == linearNearest(points, metric, ret.query, 0,
                                  <<-1, Sentinel(metric)>>)
        IN /\ ret.ok = (best[1] >= 0)
           /\ ret.ok => /\ ret.dists[1] = best[2]
                        /\ \A p \in Positions :
                              ret.dists[1] <= DistTo(ret.query, p)
                        /\ DistTo(ret.query, ret.idxs[1]) = ret.dists[1]
                        /\ ret.idxs[1] # best[1] =>
                              DistTo(ret.query, best[1]) = ret.dists[1]

C4_Witness ==
    /\ Answered("Nearest") /\ ret.via = "gonum" /\ ret.ok
    /\ Len(points) = 3
    /\ ret.idxs[1] # linearNearest(points, metric, ret.query, 0,
                                   <<-1, MaxFloat64>>)[1]

StoredIDs == { points[i].ID : i \in 1..Len(points) } \ {""}
QueryOps == {"Nearest", "KNearest", "Radius"}
Calls(op) == pc = "idle" /\ pc' = "returned" /\ ret'.op = op

\* C5: a successful DeleteByID leaves Len() one smaller and the id stored
\* nowhere; an id that is not stored becomes stored only by a successful
\* Insert of a point with that id; and no query, under either backend,
\* returns a point whose id is not stored.
C5_DeletedIdNotReturned ==
    /\ [](pc = "returned" /\ ret.op \in QueryOps =>
            \A i \in 1..Len(ret.neighbors) :
                ret.neighbors[i].ID \in StoredIDs \cup {""})
    /\ [][/\ (Calls("DeleteByID") /\ ret'.ok) =>
               /\ Len(points') = Len(points) - 1
               /\ ret'.id \notin StoredIDs'
          /\ built => \A id \in StoredIDs' \ StoredIDs :
                         Calls("Insert") /\ ret'.ok /\ ret'.p.ID = id]_vars

C5_Witness ==
    /\ Returned("DeleteByID") /\ ret.ok
    /\ backend = BackendGonum /\ Len(points) = 2

\* C6: the id map is consistent with the point sequence: its keys are the
\* non-empty ids of the stored points and each key maps to the position of
\* the point that carries it.
C6_IdIndexConsistent ==
    built =>
        /\ DOMAIN idIndex = StoredIDs
        /\ \A id \in DOMAIN idIndex :
              /\ idIndex[id] \in Positions
              /\ points[idIndex[id] + 1].ID = id

C6_Witness ==
    /\ Returned("DeleteByID") /\ ret.ok /\ ret.id = "a"
    /\ Len(points) = 2 /\ points[1].ID = "b" /\ points[2].ID = ""
    /\ idIndex["b"] = 0

\* C7: every stored point has Dim() coordinates, no two stored points share
\* a non-empty id, and no call changes Dim() once the tree is constructed.
C7_DimAndUniqueIds ==
    /\ [](built =>
            /\ dim >= 1
            /\ \A i \in 1..Len(points) : Len(points[i].Coords) = dim
            /\ \A i, j \in 1..Len(points) :
                  (i # j /\ points[i].ID # "") => points[i].ID # points[j].ID)
    /\ [][built => (built' /\ dim' = dim)]_vars

C7_Witness ==
    /\ Returned("Insert") /\ ~ret.ok /\ Len(ret.p.Coords) = dim
    /\ Len(points) = 2

\* the first position of in that the loop of NewKDTree rejects, for a
\* non-empty in whose first point has coordinates
BadDim(in, i) == Len(in[i].Coords) # Len(in[1].Coords)
DupId(in, i) == in[i].ID # "" /\ \E j \in 1..(i - 1) : in[j].ID = in[i].ID
Offenders(in) == { i \in 1..Len(in) : BadDim(in, i) \/ DupId(in, i) }
FirstOffender(in) == CHOOSE i \in Offenders(in) : \A j \in Offenders(in) : i <= j

\* C8 as stated, its cases taken in the order it lists them: ErrEmptyPoints for no points, ErrZeroDim when the first
\* point has no coordinates, ErrDimMismatch when some point's coordinate
\* count differs from the first's, ErrDuplicateID (no such point) when two
\* points share a non-empty id; no tree with an error, else Len() points.
C8_ErrorByKind ==
    Returned("NewKDTree") =>
        LET in == ret.in
        IN /\ ret.tree = (ret.err = "nil")
           /\ ret.err =
                (IF Len(in) = 0 THEN "ErrEmptyPoints"
                 ELSE IF Len(in[1].Coords) = 0 THEN "ErrZeroDim"
                 ELSE IF \E i \in 1..Len(in) : BadDim(in, i)
                      THEN "ErrDimMismatch"
                 ELSE IF \E i \in 1..Len(in) : DupId(in, i)
                      THEN "ErrDuplicateID"
                 ELSE "nil")
           /\ ret.tree => Len(points) = Len(in)

\* C8 amended: as stated, except that when the input holds both a point of
\* another dimension and a repeated id, the error is that of the earliest
\* offending point, its dimension being checked before its id.
C8_ErrorByFirstOffender ==
    Returned("NewKDTree") =>
        LET in == ret.in
        IN /\ ret.tree = (ret.err = "nil")
           /\ ret.err =
                (IF Len(in) = 0 THEN "ErrEmptyPoints"
                 ELSE IF Len(in[1].Coords) = 0 THEN "ErrZeroDim"
                 ELSE IF Offenders(in) = {} THEN "nil"
                 ELSE IF BadDim(in, FirstOffender(in)) THEN "ErrDimMismatch"
                 ELSE "ErrDuplicateID")
           /\ ret.tree => (built /\ Len(points) = Len(in))
           /\ ~ret.tree => ~built

C8_Witness ==
    /\ Returned("NewKDTree") /\ ret.err = "ErrDuplicateID"
    /\ \E i \in 1..Len(ret.in) : BadDim(ret.in, i)

\* C9: Insert(p) returns false exactly when p's coordinate count differs
\* from Dim() or p's non-empty id is stored; a rejected insert leaves the
\* points, the id map, the backend and the tree as they were; an accepted
\* one appends p, so Len() grows by one and p is the last point.
C9_Insert ==
    [][Calls("Insert") =>
         LET p == ret'.p
         IN /\ ret'.ok = ~(Len(p.Coords) # dim \/ p.ID \in StoredIDs)
            /\ ~ret'.ok => UNCHANGED <<points, idIndex, backend, backendData>>
            /\ ret'.ok => /\ Len(points') = Len(points) + 1
                          /\ points'[Len(points')] = p
                          /\ Prefix(points', Len(points)) = points]_vars

C9_Witness ==
    /\ Returned("Insert") /\ ~ret.ok /\ ret.p.ID \in StoredIDs
    /\ backend = BackendGonum /\ Len(points) = 2

\* C10: DeleteByID(id) returns false and changes nothing when id is empty
\* or not stored; otherwise the sequence is one shorter, the point that was
\* last sits in the removed slot (when that slot remains), every other
\* remaining point keeps its position and the id is stored no more.
C10_DeleteByID ==
    [][Calls("DeleteByID") =>
         LET id == ret'.id
         IN /\ ret'.ok = (id # "" /\ id \in StoredIDs)
            /\ ~ret'.ok => UNCHANGED tree
            /\ ret'.ok =>
                 LET idx == CHOOSE i \in Positions : points[i + 1].ID = id
                 IN /\ Len(points') = Len(points) - 1
                    /\ \A j \in 0..(Len(points') - 1) :
                          points'[j + 1] = IF j = idx THEN points[Len(points)]
                                           ELSE points[j + 1]
                    /\ id \notin StoredIDs']_vars

C10_Witness ==
    /\ Returned("DeleteByID") /\ ret.ok /\ ret.id = "a"
    /\ Len(points) = 2 /\ points[1].ID = "" /\ points[2].ID = "b"
    /\ points[1].Coords # points[2].Coords

\* C11 as stated: under either backend Nearest returns found=false exactly
\* when the index is empty or the query's length differs from Dim(), and
\* found=true comes with a stored point.
C11_FoundIffNonEmptyMatching ==
    Returned("Nearest") =>
        /\ ret.ok = ~(Len(points) = 0 \/ Len(ret.query) # dim)
        /\ ret.ok => \E p \in Positions : ret.neighbors[1] = points[p + 1]

\* the i-th returned point is the stored point at the i-th returned position
AtPositions(r) ==
    /\ Len(r.neighbors) = Len(r.idxs) /\ Len(r.dists) = Len(r.idxs)
    /\ \A i \in 1..Len(r.idxs) :
          /\ r.idxs[i] \in Positions
          /\ r.neighbors[i] = points[r.idxs[i] + 1]
          /\ \A j \in 1..Len(r.idxs) : i # j => r.idxs[i] # r.idxs[j]

C14_AscendingAndAligned ==
    (Returned("KNearest") \/ Returned("Radius")) =>
        /\ Len(ret.dists) = Len(ret.neighbors)
        /\ \A i \in 1..Len(ret.dists) :
              /\ ret.dists[i] =
                   Distance(metric, ret.query, ret.neighbors[i].Coords)
              /\ \A j \in i..Len(ret.dists) : ret.dists[i] <= ret.dists[j]

C14_Witness ==
    /\ Answered("Radius") /\ ret.via = "gonum"
    /\ Len(ret.dists) = 3 /\ ret.dists[1] < ret.dists[3]

\* C15: demotion is permanent: once Backend() reports linear it reports
\* linear after every later Insert, DeleteByID and query; nothing promotes
\* the facade back to the pruning backend.
C15_DemotionPermanent ==
    [][(built /\ backend = BackendLinear) => backend' = BackendLinear]_vars

C15_Witness ==
    /\ Returned("DeleteByID") /\ ret.ok
    /\ backend = BackendLinear /\ metric \in CosineMetrics
    /\ Len(points) = 2

\* C16 as stated: a facade whose metric is not L1, L2 or L-infinity reports
\* the linear backend right after NewKDTree, right after NewKDTreeFromDim
\* and after every mutation.
C16_CosineIsLinear ==
    (built /\ ~Supported(metric)) => backend = BackendLinear

\* C17 as stated: Points() returns an independent copy: no write to the
\* returned slice (replacing an element, writing a field of a returned
\* point, its coordinates included) changes what the index stores.
C17_PointsIndependent ==
    [][(pc = "returned" /\ ret.op = "Points" /\ pc' = "returned")
          => UNCHANGED tree]_vars

\* the lowest position among the stored points nearest to query
LowestNearest(query) ==
    CHOOSE p \in Positions :
        /\ \A o \in Positions : DistTo(query, p) <= DistTo(query, o)
        /\ \A o \in 0..(p - 1) : DistTo(query, p) < DistTo(query, o)

\* C18 as stated: on the linear backend, Nearest on a non-empty index with
\* a query of Dim() coordinates returns the point at the lowest position
\* among the points at minimum distance.
C18_LinearNearestLowestPosition ==
    (Returned("Nearest") /\ backend = BackendLinear
        /\ Len(points) > 0 /\ Len(ret.query) = dim) =>
        /\ ret.ok
        /\ ret.idxs[1] = LowestNearest(ret.query)
        /\ ret.neighbors[1] = points[LowestNearest(ret.query) + 1]

\* C19 as stated: NewKDTreeFromDim(dim) fails with ErrZeroDim and no tree
\* exactly when dim <= 0; otherwise it returns an empty facade of that
\* dimension, on which the Insert of a point with dim coordinates succeeds
\* and that point is then found by Nearest.
C19_FromDimInsertNearest ==
    /\ Returned("NewKDTreeFromDim") =>
          /\ (ret.err = "ErrZeroDim") = (ret.d <= 0)
          /\ (ret.err = "nil") = (ret.d > 0)
          /\ ret.tree = built /\ ret.tree = (ret.d > 0)
          /\ ret.tree => (Len(points) = 0 /\ dim = ret.d)
    /\ ~(Returned("Insert") /\ Len(ret.p.Coords) = dim /\ Len(points) = 0)
    /\ (Returned("Nearest") /\ Len(points) = 1 /\ Len(ret.query) = dim) =>
          (ret.ok /\ ret.neighbors[1] = points[1])

\* C20: for L1, L2 and L-infinity and any two vectors a and b of equal
\* length, Distance(a, b) >= 0 and Distance(a, a) = 0.
C20_DistanceNonNegative ==
    Returned("Distance") =>
        /\ ret.d >= 0
        /\ ret.a = ret.b => ret.d = 0

C20_Witness ==
    /\ Returned("Distance") /\ ret.m = "L1"
    /\ ret.a = <<MaxFloat64, 2>> /\ ret.b = <<-1, 0>> /\ ret.d = Inf

\* C21: TreeAnalytics.Reset is atomic for a concurrent Snapshot: with no
\* other goroutine recording, a Snapshot that has returned while a Reset
\* was called holds either every counter as it was before the Reset or
\* every counter at its reset value, never some of each.
C21_ResetAtomic ==
    \A g \in Running("Snapshot"), h \in Running("Reset") :
        Finished(g) =>
            \/ threads[g].out = threads[h].before
            \/ threads[g].out = NewTreeAnalytics

\* the positions a tree holds, in preorder, and its nodes
RECURSIVE TreeIdxs(_)
TreeIdxs(n) ==
    IF n = Nil THEN <<>>
    ELSE <<NodeIdx(n)>> \o TreeIdxs(NodeLeft(n)) \o TreeIdxs(NodeRight(n))

RECURSIVE Nodes(_)
Nodes(n) ==
    IF n = Nil THEN {}
    ELSE {n} \cup Nodes(NodeLeft(n)) \cup Nodes(NodeRight(n))

\* C22: no query runs against a stale tree: whenever Backend() reports the
\* pruning backend and the index is non-empty, the tree exists, holds each
\* position 0..Len()-1 exactly once and no other, and every node's split
\* value is the current coordinate, on the node's axis, of the point at
\* the node's position.
C22_TreeCurrent ==
    (built /\ backend = BackendGonum /\ Len(points) > 0) =>
        /\ backendData # Nil
        /\ Len(TreeIdxs(backendData.root)) = Len(points)
        /\ Range(TreeIdxs(backendData.root)) = Positions
        /\ \A n \in Nodes(backendData.root) :
              NodeVal(n) = points[NodeIdx(n) + 1].Coords[NodeAxis(n) + 1]

C22_Witness ==
    /\ Returned("Insert") /\ ret.ok
    /\ backend = BackendGonum /\ Len(points) = 3
    /\ Len(TreeIdxs(backendData.root)) = 3
    /\ NodeIdx(backendData.root) = 2

\* the coordinate the backend reads for position i on the axis of node n
CoordOn(n, i) == Captured(backendData)[i + 1].Coords[NodeAxis(n) + 1]

\* C23: every node of a built tree is an exact median split of the m
\* positions below and at it: floor(m/2) of them in its left subtree, the
\* other m - 1 - floor(m/2) in its right subtree, no left point beyond the
\* split value on the split axis and no right point before it.
C23_ExactMedianSplit ==
    UsesBackend =>
        \A n \in Nodes(backendData.root) :
            LET m == Len(TreeIdxs(n))
                left == TreeIdxs(NodeLeft(n))
                right == TreeIdxs(NodeRight(n))
            IN /\ Len(left) = m \div 2
               /\ Len(right) = m - 1 - (m \div 2)
               /\ \A i \in Range(left) : CoordOn(n, i) <= NodeVal(n)
               /\ \A i \in Range(right) : CoordOn(n, i) >= NodeVal(n)

C23_Witness ==
    /\ Returned("NewKDTree") /\ UsesBackend
    /\ Len(points) = 3
    /\ NodeLeft(backendData.root) # Nil /\ NodeRight(backendData.root) # Nil
    /\ \E i \in Range(TreeIdxs(NodeLeft(backendData.root))) :
          CoordOn(backendData.root, i) = NodeVal(backendData.root)

\* |a[i] - b[i]| as float64 computes it
AxisDiff(a, b, i) == Sat(Abs(a[i] - b[i]))

Searching == pc = "searching"
\* the step is a visit of a node by search
Visits == Searching /\ ret.stack # <<>> /\ Top(ret.stack).at = "visit" /\
          Top(ret.stack).n # Nil

\* C25: during a KNearest(q, k) traversal of the pruning engine the heap
\* never holds more than k items and its root is an item of maximum
\* distance; a heap that holds k items keeps holding k; and a visit
\* changes a full heap only when the visited point is strictly closer than
\* the heap's maximum, which it then replaces, every other item staying.
C25_HeapDiscipline ==
    /\ [](Searching =>
            /\ Len(ret.h) <= ret.k
            /\ \A i \in 1..Len(ret.h) : ret.h[i].dist <= peek(ret.h).dist)
    /\ [][(Searching /\ Searching') =>
            /\ Len(ret.h) = ret.k => Len(ret'.h) = ret.k
            /\ ret'.h # ret.h => Visits
            /\ (Visits /\ Len(ret.h) = ret.k) =>
                  LET x == Visited(Top(ret.stack).n, ret.query)
                  IN IF x.dist < peek(ret.h).dist
                     THEN Range(ret'.h) =
                            (Range(ret.h) \ {peek(ret.h)}) \cup {x}
                     ELSE ret'.h = ret.h]_vars

\* the traversal is over with a full heap, and a point as far as the heap's
\* maximum was left out of it
C25_Witness ==
    /\ Searching /\ ret.stack = <<>>
    /\ Len(ret.h) = ret.k /\ ret.k = 2 /\ Len(points) = 3
    /\ ret.h[1].dist > ret.h[2].dist
    /\ \E i \in Positions \ { ret.h[j].idx : j \in 1..Len(ret.h) } :
          DistTo(ret.query, i) = peek(ret.h).dist

\* C26: Nearest, KNearest and Radius are read-only on the index: a query
\* call, also one whose pruning engine returns no candidate so that the
\* facade scans linearly, leaves the point sequence, the id map, the tree
\* and the value Backend() reports as they were.
C26_QueriesReadOnly ==
    [][(\E op \in QueryOps : Calls(op)) =>
          /\ points' = points
          /\ idIndex' = idIndex
          /\ backendData' = backendData
          /\ backend' = backend]_vars

C26_Witness ==
    /\ Returned("Radius") /\ UsesBackend /\ ret.via = "linear"
    /\ Len(points) = 3 /\ ret.idxs = <<>> /\ ret.r = 0

\* C27: a facade built with the pruning backend requested and a metric of
\* {L1, L2, L-infinity} is never demoted: Backend() reports the pruning
\* backend in every state, also after DeleteByID has removed the last
\* point and after an Insert into the emptied index.
C27_NeverDemoted ==
    built => backend = BackendGonum

\* DeleteByID has removed the last point and rebuilt over no points
C27_Witness ==
    /\ Returned("DeleteByID") /\ ret.ok /\ Len(points) = 0
    /\ backend = BackendGonum /\ backendData # Nil
    /\ backendData.root = Nil /\ backendData.len = 0

\* what a query returned, as the items (position, distance) it selected
Items(r) == [i \in 1..Len(r.idxs) |-> knnItem(r.idxs[i], r.dists[i])]

\* C28: NewKDTree takes its own copy of the input slice: an assignment to
\* an element of the caller's slice after NewKDTree returned leaves the
\* stored points as they were, and every later Nearest, KNearest and Radius
\* call, under either backend, returns what it returns over the stored
\* points.
C28_InputCopied ==
    /\ Returned("ReplaceInput") => points = ret.before
    /\ (Answered("Nearest") /\ ret.via = "gonum") =>
          LET g == gonumNearest(backendData, points, ret.query)
          IN g.ok /\ Items(ret) = <<knnItem(g.idx, g.dist)>>
    /\ (Answered("KNearest") /\ ret.via = "gonum") =>
          Items(ret) \in gonumKNearest(backendData, points, ret.query, ret.k)
    /\ (Answered("Radius") /\ ret.via = "gonum") =>
          Items(ret) \in gonumRadius(backendData, points, ret.query, ret.r)
    /\ (Answered("Nearest") /\ ret.via = "linear" /\ UsesBackend) =>
          ~gonumNearest(backendData, points, ret.query).ok
    /\ (Answered("KNearest") /\ ret.via = "linear" /\ UsesBackend) =>
          <<>> \in gonumKNearest(backendData, points, ret.query, ret.k)
    /\ (Answered("Radius") /\ ret.via = "linear" /\ UsesBackend) =>
          <<>> \in gonumRadius(backendData, points, ret.query, ret.r)

\* 1 for a call that counts, 0 for one that does not
Counted(b) == IF b THEN 1 ELSE 0
\* the query returning ret' passed the checks on its arguments
Validated ==
    /\ Len(points) > 0
    /\ Len(ret'.query) = dim
    /\ ret'.op = "KNearest" => ret'.k > 0
    /\ ret'.op = "Radius" => ret'.r >= 0

\* C29: the counters count from creation or the last ResetAnalytics: a
\* constructor and ResetAnalytics leave all three at 0; an Insert call adds
\* 1 to InsertCount exactly when it returns true, a DeleteByID call adds 1
\* to DeleteCount exactly when it returns true, a Nearest, KNearest or
\* Radius call adds 1 to QueryCount exactly when its arguments pass
\* validation; and no call changes a counter that is not its own.
C29_CountsSuccessfulCalls ==
    [][LET a == analytics
           b == analytics'
           dI == IF Calls("Insert") THEN Counted(ret'.ok) ELSE 0
           dD == IF Calls("DeleteByID") THEN Counted(ret'.ok) ELSE 0
           dQ == IF \E op \in QueryOps : Calls(op)
                 THEN Counted(Validated) ELSE 0
       IN IF Calls("ResetAnalytics") \/
             ((Calls("NewKDTree") \/ Calls("NewKDTreeFromDim")) /\ ret'.tree)
          THEN b.InsertCount = 0 /\ b.DeleteCount = 0 /\ b.QueryCount = 0
          ELSE /\ b.InsertCount = a.InsertCount + dI
               /\ b.DeleteCount = a.DeleteCount + dD
               /\ b.QueryCount = a.QueryCount + dQ]_vars

\* a rejected Insert has returned after calls that were counted
C29_Witness ==
    /\ Returned("Insert") /\ ~ret.ok
    /\ analytics.InsertCount = 1 /\ analytics.DeleteCount = 1
    /\ analytics.QueryCount = 2

\* the RecordSelection calls for peerID that the goroutines S have finished
RECURSIVE Finished_(_, _)
Finished_(S, peerID) ==
    IF S = {} THEN 0
    ELSE LET g == CHOOSE x \in S : TRUE
         IN (IF threads[g].op = "RecordSelection" /\
                threads[g].peerID = peerID
             THEN threads[g].n ELSE 0) + Finished_(S \ {g}, peerID)

\* C30: concurrent RecordSelection calls lose no update: when no call is
\* in progress, the goroutines that recorded a non-empty peer id all hold
\* the one counter the map holds for it, and GetPeerStats reports as
\* SelectionCount the number of calls made for that id, first calls for an
\* untracked id included.
C30_NoLostSelection ==
    Quiet =>
        /\ \A g \in Goroutines :
              (At(g, "call") /\ threads[g].n > 0 /\ threads[g].peerID # "") =>
                  /\ Has(peerAnalytics.hitCounts, threads[g].peerID)
                  /\ threads[g].hc = peerAnalytics.hitCounts[threads[g].peerID]
        /\ (Returned("GetPeerStats") /\ ret.PeerID # "") =>
              ret.SelectionCount = Finished_(Goroutines, ret.PeerID)

\* every goroutine has made all its calls for the one peer "a", which got
\* one counter
C30_Witness ==
    /\ Returned("GetPeerStats") /\ ret.PeerID = "a"
    /\ Quiet
    /\ \A g \in Goroutines :
          At(g, "call") /\ threads[g].peerID = "a" /\ threads[g].n = MaxCount
    /\ ret.SelectionCount = MaxCount * MaxGoroutines
    /\ Len(peerAnalytics.counters) = 1
====
